---- MODULE Spec2Model ----
(***************************************************************************)
(* gotadoflux: the tado client's credential lifecycle (tado/tado.go) and   *)
(* the collection cycle that forwards zone states to influx (collect in    *)
(* the main package).                                                      *)
(*                                                                         *)
(* Time is counted in ticks.  The zero time.Time{} is tick 0 and the       *)
(* process starts at tick 1.  Strings that the code only tests for         *)
(* emptiness keep one non-empty representative per origin.                 *)
(***************************************************************************)
EXTENDS Integers, Sequences, FiniteSets, Bags, TLC

VARIABLES
    now,        \* the wall clock, time.Now()
    tado,       \* Tado.accessToken, Tado.expires, Tado.refresh
    tokenFile,  \* the file at Tado.refreshTokenPath
    lastSync,   \* var lastSync
    zones,      \* var zones: home id -> set of known zone ids
    points,     \* var points: the pending batch, a bag of points
    idx,        \* position of collect(): index in conf.Collect, Len+1 = at the write
    cycle,      \* what the running cycle has met so far
    last        \* what the last call did (observation of the last step)

vars == <<now, tado, tokenFile, lastSync, zones, points, idx, cycle, last>>

----------------------------------------------------------------------------
(* Bounds *)

MaxTime == 2

MaxPoints == 2

(* 180 * 25 * time.Hour, in ticks *)
FreshWindow == 1

ZeroTime == 0

NoError == "nil"

GOOS == "linux"

Mode0600 == "0600"

(* the mode a file created by WriteFile(.., 0666) gets: 0666 &^ umask *)
CreateModes == {"0600", "0644"}

NoFile == [exists |-> FALSE, mode |-> "none", mtime |-> ZeroTime, content |-> <<>>]

(* conf.Collect: the configured homes, in order *)
Collect == <<1, 2>>

(* a home that zones has no entry for *)
NoEntry == [found |-> FALSE, ids |-> {}]

NoSession == [accessToken |-> "", expires |-> ZeroTime, refresh |-> ZeroTime]

----------------------------------------------------------------------------
(* SecretCodec: reversible obfuscation of the stored refresh token *)

TokenEncrypt(token) == <<"obf", token>>

TokenDecrypt(content) == IF Len(content) = 2 THEN content[2] ELSE ""

----------------------------------------------------------------------------
(* CredentialStore *)

(* A WriteFile that fails is one that could not open the file: the file is   *)
(* left as it was.  An existing file keeps its mode.                         *)
SaveRefreshToken(f, token, t, writeOk, createMode) ==
    IF token = ""
    THEN [file |-> f, err |-> "Cannot save empty refresh token"]
    ELSE IF ~writeOk
    THEN [file |-> f, err |-> "write failed"]
    ELSE [file |-> [exists  |-> TRUE,
                    mode    |-> IF f.exists THEN f.mode ELSE createMode,
                    mtime   |-> t,
                    content |-> TokenEncrypt(token)],
          err  |-> NoError]

Stale(f, t) == f.mtime + FreshWindow < t

(* the load without its freshness test *)
GetRefreshTokenNoStale(f, t, readOk) ==
    IF ~f.exists
    THEN [token |-> "", err |-> "stat: no such file"]
    ELSE IF f.mode # Mode0600 /\ GOOS # "windows"
    THEN [token |-> "", err |-> "refresh token cache is not properly protected"]
    ELSE IF Len(f.content) = 0
    THEN [token |-> "", err |-> NoError]
    ELSE IF ~readOk
    THEN [token |-> "", err |-> "read failed"]
    ELSE [token |-> TokenDecrypt(f.content), err |-> NoError]

GetRefreshToken(f, t, readOk) ==
    IF ~f.exists
    THEN [token |-> "", err |-> "stat: no such file"]
    ELSE IF f.mode # Mode0600 /\ GOOS # "windows"
    THEN [token |-> "", err |-> "refresh token cache is not properly protected"]
    ELSE IF Stale(f, t)
    THEN [token |-> "", err |-> NoError]
    ELSE IF Len(f.content) = 0
    THEN [token |-> "", err |-> NoError]
    ELSE IF ~readOk
    THEN [token |-> "", err |-> "read failed"]
    ELSE [token |-> TokenDecrypt(f.content), err |-> NoError]

HasRefreshToken(f, t) ==
    IF ~f.exists
    THEN FALSE
    ELSE IF f.mode # Mode0600 /\ GOOS # "windows"
    THEN FALSE
    ELSE IF Stale(f, t)
    THEN FALSE
    ELSE IF Len(f.content) = 0
    THEN FALSE
    ELSE TRUE

----------------------------------------------------------------------------
(* Authorization Endpoint exchanges.  An exchange input x is                *)
(*   resp       what client.Do returns: a transport error or a response     *)
(*   writeOk    whether ioutil.WriteFile succeeds                           *)
(*   createMode the mode WriteFile gives a file it creates                  *)
(*   readOk     whether ioutil.ReadFile succeeds                            *)
(*   elapse     ticks that pass while the request is outstanding            *)

Response(kind, status, access, refresh, expiresIn) ==
    [kind |-> kind, status |-> status, access_token |-> access,
     refresh_token |-> refresh, expires_in |-> expiresIn]

TransportError == Response("neterr", 0, "", "", 0)

Rejected == Response("http", 400, "", "", 0)

Granted(access, refresh, expiresIn) == Response("http", 200, access, refresh, expiresIn)

Exchange(resp, writeOk, createMode, readOk, elapse) ==
    [resp |-> resp, writeOk |-> writeOk, createMode |-> createMode,
     readOk |-> readOk, elapse |-> elapse]

Result(td, f, t, err) == [tado |-> td, file |-> f, now |-> t, err |-> err]

(* decode the token response, save the refresh token, install the session;   *)
(* the two time.Now() of the assignments fall in the same tick               *)
(* the session installed whether or not the refresh token could be saved *)
InstallTokensBeforeSave(td, f, t, x) ==
    LET s == SaveRefreshToken(f, x.resp.refresh_token, t, x.writeOk, x.createMode)
    IN  Result([accessToken |-> x.resp.access_token,
                expires     |-> t + x.resp.expires_in,
                refresh     |-> t + (x.resp.expires_in \div 2)],
               s.file, t,
               IF s.err # NoError THEN "Could not save refresh token" ELSE NoError)

InstallTokens(td, f, t, x) ==
    LET s == SaveRefreshToken(f, x.resp.refresh_token, t, x.writeOk, x.createMode)
    IN  IF s.err # NoError
        THEN Result(td, s.file, t, "Could not save refresh token")
        ELSE Result([accessToken |-> x.resp.access_token,
                     expires     |-> t + x.resp.expires_in,
                     refresh     |-> t + (x.resp.expires_in \div 2)],
                    s.file, t, NoError)

AquireToken(td, f, t, x) ==
    LET t1 == t + x.elapse
    IN  IF x.resp.kind = "neterr"
        THEN Result(td, f, t1, "transport error")
        ELSE IF x.resp.status \div 100 >= 4
        THEN Result(td, f, t1, "could not get token")
        ELSE InstallTokens(td, f, t1, x)

RefreshToken(td, f, t, x) ==
    IF ~HasRefreshToken(f, t)
    THEN Result(td, f, t, "No refresh token")
    ELSE IF GetRefreshToken(f, t, x.readOk).err # NoError
    THEN Result(td, f, t, GetRefreshToken(f, t, x.readOk).err)
    ELSE LET t1 == t + x.elapse
         IN  IF x.resp.kind = "neterr"
             THEN Result(td, f, t1, "transport error")
             ELSE IF x.resp.status \div 100 >= 4
             THEN Result(td, f, t1, "could not get token")
             ELSE InstallTokens(td, f, t1, x)

----------------------------------------------------------------------------
(* CredentialLifecycleManager: Tado.AuthCheck *)

(* the test with the renewal brought forward by one tick *)
AccessTokenValidLate(td, t) == td.refresh > t + 1

(* t.refresh.After(time.Now()) *)
AccessTokenValid(td, t) == td.refresh > t

(* the test of the renewal watermark repeated where the expiry is meant *)
TokenExpiredByWatermark(td, t) == ~(td.refresh > t)

(* t.expires.Before(time.Now()) *)
TokenExpired(td, t) == td.expires < t

(* one entry of the log of an AuthCheck call: the exchange that was issued,  *)
(* the session, the credential file and the clock when it was issued, what   *)
(* the endpoint and the file system answered, how it ended and the session   *)
(* it left                                                                   *)
Attempt(op, td, f, t, x, r) ==
    [op |-> op, pre |-> td, file |-> f, t0 |-> t, resp |-> x.resp,
     writeOk |-> x.writeOk, readOk |-> x.readOk, err |-> r.err, at |-> r.now,
     post |-> r.tado]

Step(returned, r, log) == [returned |-> returned, res |-> r, log |-> log]

(* the block "we have an access token" once the token needs to be refreshed *)
RenewBlock(td, f, t, x) ==
    IF HasRefreshToken(f, t)
    THEN LET r == RefreshToken(td, f, t, x)
         IN  Step(r.err # NoError /\ TokenExpired(r.tado, r.now), r,
                  <<Attempt("refresh", td, f, t, x, r)>>)
    ELSE LET r == AquireToken(td, f, t, x)
         IN  Step(r.err # NoError /\ TokenExpired(r.tado, r.now), r,
                  <<Attempt("acquire", td, f, t, x, r)>>)

(* the block without its test for a stored refresh token *)
AcquireBlockNoCheck(a, x) ==
    LET r == AquireToken(a.res.tado, a.res.file, a.res.now, x)
    IN  Step(r.err # NoError, r,
             Append(a.log, Attempt("acquire", a.res.tado, a.res.file, a.res.now, x, r)))

(* the block "we don't have an access token" *)
AcquireBlock(a, x) ==
    IF HasRefreshToken(a.res.file, a.res.now)
    THEN LET r == RefreshToken(a.res.tado, a.res.file, a.res.now, x)
         IN  Step(r.err # NoError, r,
                  Append(a.log, Attempt("refresh", a.res.tado, a.res.file, a.res.now, x, r)))
    ELSE LET r == AquireToken(a.res.tado, a.res.file, a.res.now, x)
         IN  Step(r.err # NoError, r,
                  Append(a.log, Attempt("acquire", a.res.tado, a.res.file, a.res.now, x, r)))

(* the value AuthCheck returns without the closing test *)
AuthReturnNoClosingTest(b) ==
    [tado |-> b.res.tado, file |-> b.res.file, now |-> b.res.now, log |-> b.log,
     err  |-> IF b.returned THEN b.res.err ELSE NoError]

(* the closing test "No access token" and the value AuthCheck returns *)
AuthReturn(b) ==
    [tado |-> b.res.tado, file |-> b.res.file, now |-> b.res.now, log |-> b.log,
     err  |-> IF b.returned THEN b.res.err
              ELSE IF b.res.tado.accessToken = "" THEN "No access token"
              ELSE NoError]

(* every way a call of AuthCheck can end, the exchanges drawn from X *)
AuthCheck(td, f, t, X) ==
    LET first ==
            IF td.accessToken # ""
            THEN IF AccessTokenValid(td, t)
                 THEN {Step(TRUE, Result(td, f, t, NoError), <<>>)}
                 ELSE {RenewBlock(td, f, t, x) : x \in X}
            ELSE {Step(FALSE, Result(td, f, t, NoError), <<>>)}
        second(a) ==
            IF ~a.returned /\ a.res.tado.accessToken = ""
            THEN {AcquireBlock(a, x) : x \in X}
            ELSE {a}
    IN  {AuthReturn(b) : b \in UNION {second(a) : a \in first}}

----------------------------------------------------------------------------
(* Inputs *)

Bearers == {"bearerA", "bearerB"}

ExpiresInValues == {0, 1, 2}

Responses ==
    {TransportError, Rejected}
    \cup {Granted(a, r, e) : a \in Bearers \cup {""}, r \in {"renewal", ""},
                             e \in ExpiresInValues}

(* the exchanges an AuthCheck call may meet: a failed request, a grant that  *)
(* is saved, a grant whose save fails, a credential file that cannot be read *)
AuthInputs ==
    {Exchange(resp, TRUE, Mode0600, TRUE, d) :
        resp \in {TransportError, Rejected}, d \in {0, 1}}
    \cup {Exchange(Granted(a, "renewal", e), TRUE, m, TRUE, d) :
            a \in Bearers \cup {""}, e \in ExpiresInValues, m \in CreateModes,
            d \in {0, 1}}
    \cup {Exchange(Granted("bearerA", "", 2), TRUE, Mode0600, TRUE, 0),
          Exchange(Granted("bearerA", "renewal", 2), FALSE, Mode0600, TRUE, 0),
          Exchange(Rejected, TRUE, Mode0600, FALSE, 0)}

Idle == [op |-> "none"]

----------------------------------------------------------------------------
(* State after main() and Service.Manage() have set the process up: the     *)
(* credential file is the empty file main() has just created, or the file   *)
(* an earlier run has left                                                   *)

Init ==
    /\ now = 1
    /\ tado = NoSession
    /\ tokenFile \in {[exists |-> TRUE, mode |-> Mode0600, mtime |-> 1, content |-> <<>>],
                      [exists |-> TRUE, mode |-> Mode0600, mtime |-> ZeroTime,
                       content |-> TokenEncrypt("renewal")]}
    /\ lastSync = ZeroTime
    /\ zones = [h \in {Collect[i] : i \in 1..Len(Collect)} |-> NoEntry]
    /\ points = EmptyBag
    /\ idx = 1
    /\ cycle = [authFailed |-> FALSE, statesFailed |-> FALSE, fetched |-> ZeroTime,
                retry |-> FALSE]
    /\ last = Idle

pipeline == <<lastSync, zones, points, idx, cycle>>

(* time passes *)
Tick ==
    /\ now < MaxTime
    /\ now' = now + 1
    /\ last' = Idle
    /\ UNCHANGED <<tado, tokenFile, pipeline>>

(* a call of t.AuthCheck(), as GetHome, GetZoneStates and GetZones start with *)
AuthCheckCall ==
    \E r \in AuthCheck(tado, tokenFile, now, AuthInputs) :
        /\ r.now <= MaxTime
        /\ now' = r.now
        /\ tado' = r.tado
        /\ tokenFile' = r.file
        /\ last' = [op |-> "AuthCheck", pre |-> tado, t0 |-> now,
                    log |-> r.log, err |-> r.err]
        /\ UNCHANGED pipeline

(* a call of t.GetRefreshToken() *)
GetRefreshTokenCall ==
    \E rd \in BOOLEAN :
        /\ last' = [op |-> "GetRefreshToken",
                    token |-> GetRefreshToken(tokenFile, now, rd).token,
                    err |-> GetRefreshToken(tokenFile, now, rd).err]
        /\ UNCHANGED <<now, tado, tokenFile, pipeline>>

(* a call of t.HasRefreshToken() *)
HasRefreshTokenCall ==
    /\ last' = [op |-> "HasRefreshToken", found |-> HasRefreshToken(tokenFile, now)]
    /\ UNCHANGED <<now, tado, tokenFile, pipeline>>

(* the credential file is removed by someone else *)
FileRemove ==
    /\ tokenFile.exists
    /\ tokenFile' = NoFile
    /\ last' = Idle
    /\ UNCHANGED <<now, tado, pipeline>>

(* the credential file's mode is changed by someone else *)
FileChmod ==
    /\ tokenFile.exists
    /\ \E m \in CreateModes :
        /\ m # tokenFile.mode
        /\ tokenFile' = [tokenFile EXCEPT !.mode = m]
    /\ last' = Idle
    /\ UNCHANGED <<now, tado, pipeline>>

NextAuth ==
    \/ Tick
    \/ AuthCheckCall
    \/ GetRefreshTokenCall
    \/ HasRefreshTokenCall
    \/ FileRemove
    \/ FileChmod

SpecAuth == Init /\ [][NextAuth]_vars

----------------------------------------------------------------------------
(* CollectionPipeline: collect() *)

(* the zone ids the Topology Endpoint knows per home (Zone.Id) *)
TopologyIds(h) == IF h = 1 THEN {10, 11} ELSE {20}

(* strconv.Itoa on the zone ids in use *)
Itoa(n) ==
    CASE n = 10 -> "10"
      [] n = 11 -> "11"
      [] n = 20 -> "20"

(* strings.ToUpper on the AcPower values in use *)
ToUpper(v) ==
    CASE v = "on" -> "ON"
      [] v = "On" -> "ON"
      [] v = "off" -> "OFF"
      [] OTHER -> v

(* pointers: nil, or a value *)
NilPtr == [nil |-> TRUE, v |-> 0]

Ptr(v) == [nil |-> FALSE, v |-> v]

NilStr == [nil |-> TRUE, v |-> ""]

(* tado.ZoneState: SensorDataPoints.InsideTemperature (Celsius, Timestamp),  *)
(* SensorDataPoints.Humidity (Percentage), ActivityDataPoints.AcPower        *)
(* (Value) and ActivityDataPoints.HeatingPower (Percentage)                  *)
ZoneState(temp, hum, ac, heat) == [temp |-> temp, hum |-> hum, ac |-> ac, heat |-> heat]

Absent == [nil |-> TRUE]

Temperature(celsius, ts) == [nil |-> FALSE, celsius |-> celsius, timestamp |-> ts]

Humidity(pc) == [nil |-> FALSE, percentage |-> pc]

AcPower(v) == [nil |-> FALSE, value |-> v]

HeatingPower(pc) == [nil |-> FALSE, percentage |-> pc]

(* the nil dereferences of the loop body on a state that goes past the tests *)
Panics(st) ==
    \/ (~st.ac.nil /\ st.ac.value.nil)
    \/ (~st.heat.nil /\ st.heat.percentage.nil)
    \/ st.temp.celsius.nil
    \/ st.hum.nil
    \/ (~st.hum.nil /\ st.hum.percentage.nil)

(* the power with the AC indicator taking precedence over the heating power *)
PowerPcAcFirst(st) ==
    IF ~st.ac.nil /\ ToUpper(st.ac.value.v) = "ON"
    THEN 100
    ELSE IF ~st.heat.nil
    THEN st.heat.percentage.v
    ELSE 0

PowerPc(st) ==
    IF ~st.heat.nil
    THEN st.heat.percentage.v
    ELSE IF ~st.ac.nil /\ ToUpper(st.ac.value.v) = "ON"
    THEN 100
    ELSE 0

(* the test with "not after" where "before" is meant *)
SkippedNotAfter(ts, sync) == ts <= sync

(* InsideTemperature.Timestamp.Before(lastSync) *)
Skipped(ts, sync) == ts < sync

(* one turn of the loop over states.ZoneStates *)
ExtractPoint(home, zoneId, st, sync) ==
    IF st.temp.nil
    THEN [kind |-> "skip"]
    ELSE IF st.temp.timestamp.nil
    THEN [kind |-> "panic"]
    ELSE IF Skipped(st.temp.timestamp.v, sync)
    THEN [kind |-> "skip"]
    ELSE IF Panics(st)
    THEN [kind |-> "panic"]
    ELSE [kind  |-> "point",
          point |-> [home |-> home, zone |-> zoneId,
                     ts |-> st.temp.timestamp.v, power |-> PowerPc(st)]]

(* the refresh test with the search for unknown zones left out *)
ZonesStaleHomeOnly(entry, observed) == ~entry.found

(* !homefound || !allzonesfound *)
ZonesStale(entry, observed) ==
    \/ ~entry.found
    \/ \E z \in observed : z \notin entry.ids

Entry(ids) == [found |-> TRUE, ids |-> ids]

(* zones[home.Id] rebuilt from the zones GetZones returned *)
Rebuild(newZones) == Entry({Itoa(z) : z \in newZones})

(* the watermark and the batch left by a write that always advances *)
AfterWriteAlways(err, sync, pts, t) == [lastSync |-> t, points |-> EmptyBag]

(* ... by a write that forgets the watermark when it fails *)
AfterWriteReset(err, sync, pts, t) ==
    IF err # NoError
    THEN [lastSync |-> ZeroTime, points |-> pts]
    ELSE [lastSync |-> t, points |-> EmptyBag]

(* ... by a write that counts an empty batch as no write *)
AfterWriteNonEmpty(err, sync, pts, t) ==
    IF err # NoError \/ pts = EmptyBag
    THEN [lastSync |-> sync, points |-> pts]
    ELSE [lastSync |-> t, points |-> EmptyBag]

(* the end of collect(): return on a write error, else lastSync = time.Now() *)
(* and points = nil                                                          *)
AfterWrite(err, sync, pts, t) ==
    IF err # NoError
    THEN [lastSync |-> sync, points |-> pts]
    ELSE [lastSync |-> t, points |-> EmptyBag]

----------------------------------------------------------------------------
(* Inputs of a cycle *)

(* the exchanges met during cycles: a rejected request, or a saved grant of  *)
(* a session that outlives the cycles looked at                              *)
CycleAuthInputs ==
    {Exchange(Rejected, TRUE, Mode0600, TRUE, 0),
     Exchange(Granted("bearerA", "renewal", 2 * MaxTime + 2), TRUE, Mode0600, TRUE, 0)}

(* the timestamps of the readings the State Endpoint holds at time t *)
RecentTimes(t) == {t - 1, t} \cap (1..t)

Reading(ts) ==
    ZoneState(Temperature(Ptr(21), Ptr(ts)), Humidity(Ptr(45)), Absent,
              HeatingPower(Ptr(30)))

NoTemperature == ZoneState(Absent, Humidity(Ptr(45)), Absent, Absent)

NoHumidity(ts) ==
    ZoneState(Temperature(Ptr(21), Ptr(ts)), Absent, Absent, HeatingPower(Ptr(30)))

CycleShapes(t) == {NoTemperature, NoHumidity(t)} \cup {Reading(ts) : ts \in RecentTimes(t)}

(* the shapes a zone reports: zone 11 has no temperature sensor of its own   *)
(* or reports with a lag of one tick, the other zones report any shape       *)
ZoneShapes(zoneId, t) ==
    IF zoneId = Itoa(11)
    THEN {NoTemperature} \cup {Reading(ts) : ts \in RecentTimes(t) \ {t}}
    ELSE CycleShapes(t)

(* what GetZoneStates can return once authorized, at time t: an error, or    *)
(* the states of some zones                                                  *)
StateResponses(h, t) ==
    {[err |-> "state fetch failed", zoneStates |-> <<>>]}
    \cup {[err |-> NoError, zoneStates |-> m] :
            m \in UNION {{f \in [S -> CycleShapes(t)] :
                            \A z \in S : f[z] \in ZoneShapes(z, t)} :
                         S \in SUBSET {Itoa(z) : z \in TopologyIds(h)}}}

(* the zone lists the Topology Endpoint holds for a home over time: home 1   *)
(* has zone 10 and may have zone 11 as well, home 2 has zone 20              *)
ZoneLists(h) == IF h = 1 THEN {{10}, {10, 11}} ELSE {{20}}

(* what GetZones can return once authorized: an error, or a list of zones *)
ZoneResponses(h) ==
    {[err |-> "zone fetch failed", zones |-> {}]}
    \cup {[err |-> NoError, zones |-> Z] : Z \in ZoneLists(h)}

----------------------------------------------------------------------------
(* The loop body of collect() for the home at idx, as one step *)

Observed(m) == DOMAIN m

(* the readings offered: the states that carry a temperature and a timestamp *)
Readings(m) ==
    {[zone |-> z, ts |-> m[z].temp.timestamp.v] :
        z \in {y \in DOMAIN m : ~m[y].temp.nil /\ ~m[y].temp.timestamp.nil}}

Extracted(home, m, sync) == {ExtractPoint(home, z, m[z], sync) : z \in DOMAIN m}

NewPoints(home, m, sync) ==
    {e.point : e \in {x \in Extracted(home, m, sync) : x.kind = "point"}}

LoopPanics(home, m, sync) == \E e \in Extracted(home, m, sync) : e.kind = "panic"

Seen(home, outcome, failedBefore, entry, observed, fetches, readings, admitted) ==
    [op |-> "CollectHome", home |-> home, outcome |-> outcome,
     afterAuthFailure |-> failedBefore, cache |-> entry, observed |-> observed,
     fetches |-> fetches, readings |-> readings, admitted |-> admitted]

(* the step with the entry of the home emptied before GetZones' error is     *)
(* looked at                                                                 *)
AdvanceDroppingEntry(a, zc, pts, authFailed, seen) ==
    /\ a.now <= MaxTime
    /\ BagCardinality(pts) <= MaxPoints
    /\ now' = a.now
    /\ tado' = a.tado
    /\ tokenFile' = a.file
    /\ zones' = IF seen.outcome = "zones error"
                THEN [zc EXCEPT ![seen.home] = Entry({})]
                ELSE zc
    /\ points' = pts
    /\ idx' = idx + 1
    /\ cycle' = [cycle EXCEPT !.authFailed = @ \/ authFailed,
                             !.statesFailed = @ \/ seen.outcome = "states error",
                             !.fetched = IF seen.outcome = "processed"
                                            /\ seen.home = Collect[1]
                                         THEN a.now ELSE @]
    /\ last' = seen
    /\ UNCHANGED lastSync

(* the step with `break` where `continue` is meant after GetZoneStates fails *)
AdvanceBreaking(a, zc, pts, authFailed, seen) ==
    /\ a.now <= MaxTime
    /\ BagCardinality(pts) <= MaxPoints
    /\ now' = a.now
    /\ tado' = a.tado
    /\ tokenFile' = a.file
    /\ zones' = zc
    /\ points' = pts
    /\ idx' = IF seen.outcome = "states error" THEN Len(Collect) + 1 ELSE idx + 1
    /\ cycle' = [cycle EXCEPT !.authFailed = @ \/ authFailed,
                             !.statesFailed = @ \/ seen.outcome = "states error",
                             !.fetched = IF seen.outcome = "processed"
                                            /\ seen.home = Collect[1]
                                         THEN a.now ELSE @]
    /\ last' = seen
    /\ UNCHANGED lastSync

(* the home is left with `continue`, or its states have been gone through *)
Advance(a, zc, pts, authFailed, seen) ==
    /\ a.now <= MaxTime
    /\ BagCardinality(pts) <= MaxPoints
    /\ now' = a.now
    /\ tado' = a.tado
    /\ tokenFile' = a.file
    /\ zones' = zc
    /\ points' = pts
    /\ idx' = idx + 1
    /\ cycle' = [cycle EXCEPT !.authFailed = @ \/ authFailed,
                             !.statesFailed = @ \/ seen.outcome = "states error",
                             !.fetched = IF seen.outcome = "processed"
                                            /\ seen.home = Collect[1]
                                         THEN a.now ELSE @]
    /\ last' = seen
    /\ UNCHANGED lastSync

(* a nil dereference in the loop ends the process *)
Panic(a, zc, seen) ==
    /\ a.now <= MaxTime
    /\ now' = a.now
    /\ tado' = a.tado
    /\ tokenFile' = a.file
    /\ zones' = zc
    /\ idx' = 0
    /\ last' = seen
    /\ UNCHANGED <<lastSync, points, cycle>>

(* the loop over states.ZoneStates *)
Loop(home, a, zc, m, fetches) ==
    LET seen(outcome, admitted) ==
            Seen(home, outcome, cycle.authFailed, zones[home], Observed(m), fetches,
                 Readings(m), admitted)
        new == NewPoints(home, m, lastSync)
    IN  IF LoopPanics(home, m, lastSync)
        THEN Panic(a, zc, seen("panic", {}))
        ELSE Advance(a, zc, points (+) SetToBag(new), FALSE, seen("processed", new))

CollectHome ==
    /\ idx \in 1..Len(Collect)
    /\ LET home == Collect[idx]
           skip(a, outcome, observed, fetches) ==
               Advance(a, zones, points, outcome \in {"auth error", "zones auth error"},
                       Seen(home, outcome, cycle.authFailed, zones[home], observed,
                            fetches, {}, {}))
       IN  \E a \in AuthCheck(tado, tokenFile, now, CycleAuthInputs) :
             IF a.err # NoError
             THEN skip(a, "auth error", {}, 0)
             ELSE \E sr \in StateResponses(home, a.now) :
               IF sr.err # NoError
               THEN skip(a, "states error", {}, 0)
               ELSE IF ~ZonesStale(zones[home], Observed(sr.zoneStates))
               THEN Loop(home, a, zones, sr.zoneStates, 0)
               ELSE \E b \in AuthCheck(a.tado, a.file, a.now, CycleAuthInputs) :
                 IF b.err # NoError
                 THEN skip(b, "zones auth error", Observed(sr.zoneStates), 1)
                 ELSE \E zr \in ZoneResponses(home) :
                   IF zr.err # NoError
                   THEN skip(b, "zones error", Observed(sr.zoneStates), 1)
                   ELSE Loop(home, b, [zones EXCEPT ![home] = Rebuild(zr.zones)],
                             sr.zoneStates, 1)

(* the batch is handed to influx.Write; NewBatchPoints does not fail for     *)
(* the precision "s"                                                         *)
WriteBatch ==
    /\ idx = Len(Collect) + 1
    /\ \E err \in {NoError, "write failed"} :
        /\ lastSync' = AfterWrite(err, lastSync, points, now).lastSync
        /\ points' = AfterWrite(err, lastSync, points, now).points
        /\ cycle' = [authFailed |-> FALSE, statesFailed |-> FALSE,
                     fetched |-> ZeroTime, retry |-> err # NoError]
        /\ last' = [op |-> "WriteBatch", err |-> err, syncBefore |-> lastSync,
                    at |-> now, batch |-> points, authFailed |-> cycle.authFailed,
                    statesFailed |-> cycle.statesFailed, retry |-> cycle.retry,
                    fetched |-> cycle.fetched]
    /\ idx' = 1
    /\ UNCHANGED <<now, tado, tokenFile, zones>>

Next ==
    \/ Tick
    \/ CollectHome
    \/ WriteBatch

Spec == Init /\ [][Next]_vars

----------------------------------------------------------------------------
(* The loop body on its own: one zone state of any shape the decoder of      *)
(* ZoneStatesResponse can produce, against any watermark up to now           *)

AcValues == {"on", "On", "ON", "off", "OFF"}

Percentages == {0, 30, 100}

Temperatures(t) ==
    {Absent}
    \cup {Temperature(c, ts) : c \in {NilPtr, Ptr(21)},
                               ts \in {NilPtr} \cup {Ptr(u) : u \in 0..t}}

Humidities == {Absent, Humidity(NilPtr), Humidity(Ptr(45))}

AcPowers == {Absent, AcPower(NilStr)} \cup {AcPower(Ptr(v)) : v \in AcValues}

HeatingPowers ==
    {Absent, HeatingPower(NilPtr)} \cup {HeatingPower(Ptr(pc)) : pc \in Percentages}

ZoneStates(t) ==
    {ZoneState(temp, hum, ac, heat) :
        temp \in Temperatures(t), hum \in Humidities, ac \in AcPowers,
        heat \in HeatingPowers}

(* the loop is about to take a zone state, with lastSync at some instant *)
InitExtract ==
    /\ now = 1
    /\ tado = NoSession
    /\ tokenFile = NoFile
    /\ lastSync = ZeroTime
    /\ zones = [h \in {Collect[i] : i \in 1..Len(Collect)} |-> NoEntry]
    /\ points = EmptyBag
    /\ idx = 1
    /\ cycle = [authFailed |-> FALSE, statesFailed |-> FALSE, fetched |-> ZeroTime,
                retry |-> FALSE]
    /\ last \in {[op |-> "ZoneState", state |-> st, sync |-> sync] :
                    st \in ZoneStates(MaxTime), sync \in 0..MaxTime}

(* one turn of the loop over states.ZoneStates, for zone 10 of the first home *)
ExtractPointCall ==
    /\ last.op = "ZoneState"
    /\ last' = [op |-> "ExtractPoint", state |-> last.state, sync |-> last.sync,
                out |-> ExtractPoint(Collect[1], Itoa(10), last.state, last.sync)]
    /\ UNCHANGED <<now, tado, tokenFile, pipeline>>

NextExtract == ExtractPointCall

SpecExtract == InitExtract /\ [][NextExtract]_vars

----------------------------------------------------------------------------
(* Claims on the credential lifecycle, checked under SpecAuth *)

(* the stored credential is present, owner-only, fresh and non-empty *)
CredentialUsable(f, t) ==
    /\ f.exists
    /\ f.mode = "0600"
    /\ f.mtime + FreshWindow >= t
    /\ Len(f.content) > 0

(* C5: in every AuthCheck call, acquire-by-password is never issued while a  *)
(* stored credential exists that is fresh, owner-only and non-empty.         *)
C5_NoAcquireWithCredential ==
    last.op = "AuthCheck" =>
        \A i \in 1..Len(last.log) :
            last.log[i].op = "acquire" =>
                ~CredentialUsable(last.log[i].file, last.log[i].t0)

(* an AuthCheck call that found a usable credential, whose refresh failed    *)
(* and which returned that error                                             *)
C5_Witness ==
    /\ last.op = "AuthCheck"
    /\ Len(last.log) = 1
    /\ last.log[1].op = "refresh"
    /\ CredentialUsable(last.log[1].file, last.log[1].t0)
    /\ last.log[1].err # NoError
    /\ last.err # NoError

(* the call had a session that had reached its renewal watermark and its     *)
(* first exchange failed                                                     *)
RenewalFailed ==
    /\ last.op = "AuthCheck"
    /\ last.pre.accessToken # ""
    /\ last.pre.refresh <= last.t0
    /\ Len(last.log) >= 1
    /\ last.log[1].err # NoError

(* C6: soft renewal.  When AuthCheck is called with a session that has       *)
(* reached its renewal watermark, the refresh or acquire attempt fails and   *)
(* the clock read after the attempt is still before the expiry, AuthCheck    *)
(* returns success and the session is what it was.                           *)
C6_SoftRenewal ==
    (RenewalFailed /\ last.log[1].at < last.pre.expires) =>
        (last.err = NoError /\ tado = last.pre)

C6_Witness ==
    /\ RenewalFailed
    /\ last.log[1].at < last.pre.expires
    /\ last.log[1].err = "could not get token"
    /\ last.err = NoError

(* C7: hard expiry.  When AuthCheck is called with a session for which       *)
(* now >= expiry, now = expiry included, and the refresh or acquire attempt  *)
(* fails, AuthCheck returns the error.                                       *)
C7_HardExpiry ==
    (RenewalFailed /\ last.t0 >= last.pre.expires) => last.err # NoError

(* the four cases in which no credential is found *)
FileMissing == ~tokenFile.exists

FileWrongMode == tokenFile.exists /\ tokenFile.mode # "0600"

FileStale ==
    tokenFile.exists /\ tokenFile.mode = "0600" /\ tokenFile.mtime + FreshWindow < now

FileEmpty ==
    tokenFile.exists /\ tokenFile.mode = "0600" /\ Len(tokenFile.content) = 0

(* C9 as stated: GetRefreshToken answers "not found" with no error for a     *)
(* missing file, a wrong mode, a stale file and an empty file.               *)
C9_LoadNotFound ==
    (last.op = "GetRefreshToken"
        /\ (FileMissing \/ FileWrongMode \/ FileStale \/ FileEmpty)) =>
        (last.token = "" /\ last.err = NoError)

(* C9 amended: HasRefreshToken answers false in each of the four cases;      *)
(* GetRefreshToken answers the empty token with no error for a stale or an   *)
(* empty file, and an error for a missing file or a wrong mode.              *)
C9_StoreOutcomes ==
    /\ (last.op = "HasRefreshToken"
            /\ (FileMissing \/ FileWrongMode \/ FileStale \/ FileEmpty)) =>
            last.found = FALSE
    /\ (last.op = "GetRefreshToken" /\ (FileStale \/ FileEmpty)) =>
            (last.token = "" /\ last.err = NoError)
    /\ (last.op = "GetRefreshToken" /\ (FileMissing \/ FileWrongMode)) =>
            (last.token = "" /\ last.err # NoError)

C9_Witness ==
    /\ last.op = "GetRefreshToken"
    /\ FileStale
    /\ Len(tokenFile.content) > 0
    /\ last.err = NoError

----------------------------------------------------------------------------
(* Claims on the collection cycle, checked under Spec *)

(* C1: through every sequence of cycles lastSync never decreases. *)
C1_WatermarkMonotonic == [][lastSync' >= lastSync]_vars

(* a write that succeeded and moved the watermark forward *)
C1_Witness ==
    /\ last.op = "WriteBatch"
    /\ last.err = NoError
    /\ last.syncBefore > ZeroTime
    /\ lastSync > last.syncBefore

C3_FailedWriteKeepsWatermark ==
    /\ (last.op = "WriteBatch" /\ last.err # NoError) =>
            (lastSync = last.syncBefore /\ cycle.retry)
    /\ (last.op = "CollectHome" /\ cycle.retry /\ last.outcome = "processed") =>
            \A r \in last.readings :
                r.ts > lastSync =>
                    \E p \in last.admitted : p.zone = r.zone /\ p.ts = r.ts

(* after a failed write, a reading that was pending is admitted again *)
C3_Witness ==
    /\ last.op = "CollectHome"
    /\ cycle.retry
    /\ \E p \in last.admitted : p.ts > lastSync /\ CopiesIn(p, points) = 2

(* C4: a Sink write that succeeds sets lastSync to the current instant and   *)
(* empties the pending batch, also when the batch was empty.                 *)
C4_SuccessfulWriteAdvances ==
    (last.op = "WriteBatch" /\ last.err = NoError) =>
        (lastSync = now /\ lastSync = last.at /\ points = EmptyBag)

(* an empty batch was written and the watermark moved *)
C4_Witness ==
    /\ last.op = "WriteBatch"
    /\ last.err = NoError
    /\ last.batch = EmptyBag
    /\ last.syncBefore < lastSync

(* C8: once AuthCheck has returned an error in a cycle (the session is      *)
(* expired or absent and the exchange failed), no further home is processed, *)
(* the Sink is not written and lastSync is not advanced by that cycle.       *)
C8_AuthFailureAbortsCycle ==
    /\ last.op = "CollectHome" => ~last.afterAuthFailure
    /\ last.op = "WriteBatch" => ~last.authFailed
    /\ (last.op = "WriteBatch" /\ last.authFailed) => lastSync = last.syncBefore

(* C10: for a home whose states were fetched, GetZones is called once when   *)
(* zones has no entry for the home or an observed zone id is not in the      *)
(* entry, and not at all when every observed id is in the entry.             *)
C10_OneFetchWhenStale ==
    (last.op = "CollectHome" /\ last.outcome \notin {"auth error", "states error"}) =>
        last.fetches =
            IF ~last.cache.found \/ (last.observed \ last.cache.ids) # {}
            THEN 1 ELSE 0

(* an entry existed, one observed id was in it and another was not, and the  *)
(* missing id is still unknown after the one re-fetch                        *)
C10_Witness ==
    /\ last.op = "CollectHome"
    /\ last.outcome = "processed"
    /\ last.cache.found
    /\ (last.observed \cap last.cache.ids) # {}
    /\ last.fetches = 1
    /\ (last.observed \ zones[last.home].ids) # {}

(* C11: when GetZones fails for a home whose entry in zones was stale, zones *)
(* is exactly what it was (the entry of that home and of every other home),  *)
(* no point is constructed for that home in the cycle, and collect() goes on *)
(* to the next home.                                                         *)
C11_FailedFetchKeepsCache ==
    [][(last'.op = "CollectHome"
            /\ last'.outcome \in {"zones error", "zones auth error"}) =>
        /\ last'.fetches = 1
        /\ zones' = zones
        /\ last'.admitted = {}
        /\ points' = points
        /\ idx' = idx + 1]_vars

(* GetZones failed for the first home, which had an entry that an observed   *)
(* zone was missing from; the entry is as it was and the second home is next *)
C11_Witness ==
    /\ last.op = "CollectHome"
    /\ last.outcome = "zones error"
    /\ last.home = Collect[1]
    /\ last.cache.found
    /\ (last.observed \ last.cache.ids) # {}
    /\ zones[last.home] = last.cache
    /\ idx = 2

(* C12: when GetZoneStates fails for one home, the step changes nothing but  *)
(* the position in conf.Collect; every other home of the cycle is still      *)
(* fetched and gone through, the points of its readings that are not before  *)
(* the watermark are added to the batch, and the batch is written once, when *)
(* all homes have been visited.                                              *)
C12_PartialFailureIsolation ==
    [][/\ (last'.op = "CollectHome" /\ last'.outcome = "states error") =>
            /\ idx' = idx + 1
            /\ zones' = zones
            /\ points' = points
            /\ lastSync' = lastSync
       /\ (last'.op = "CollectHome" /\ last'.outcome = "processed"
                /\ cycle.statesFailed) =>
            /\ idx' = idx + 1
            /\ {[zone |-> p.zone, ts |-> p.ts] : p \in last'.admitted}
                    = {r \in last'.readings : r.ts >= lastSync}
            /\ points' = points (+) SetToBag(last'.admitted)
            /\ lastSync' = lastSync
       /\ last'.op = "WriteBatch" =>
            /\ idx = Len(Collect) + 1
            /\ idx' = 1
            /\ last'.batch = points]_vars

(* the state fetch of the first home failed, the second home was gone        *)
(* through in the same cycle and its points are in the batch to be written   *)
C12_Witness ==
    /\ last.op = "CollectHome"
    /\ last.home = Collect[2]
    /\ last.outcome = "processed"
    /\ cycle.statesFailed
    /\ last.admitted # {}
    /\ \A p \in last.admitted : BagIn(p, points)
    /\ idx = Len(Collect) + 1

----------------------------------------------------------------------------
(* Further claims on the credential lifecycle, checked under SpecAuth *)

(* C13: after every AquireToken or RefreshToken that succeeded, the session  *)
(* it installed has its renewal watermark strictly before its expiry, for    *)
(* every expires_in the Authorization Endpoint returned, 0 and 1 included.   *)
C13_WatermarkBeforeExpiry ==
    last.op = "AuthCheck" =>
        \A i \in 1..Len(last.log) :
            last.log[i].err = NoError =>
                last.log[i].post.refresh < last.log[i].post.expires

(* the request of the attempt was sent: RefreshToken sends it once it has    *)
(* loaded the stored token, AquireToken always                               *)
RequestSent(e) ==
    \/ e.op = "acquire"
    \/ /\ HasRefreshToken(e.file, e.t0)
       /\ GetRefreshToken(e.file, e.t0, e.readOk).err = NoError

(* the endpoint granted tokens and they cannot be persisted: the refresh     *)
(* token is empty, or the write fails                                        *)
PersistFails(e) ==
    /\ RequestSent(e)
    /\ e.resp.kind = "http"
    /\ e.resp.status \div 100 < 4
    /\ (e.resp.refresh_token = "" \/ ~e.writeOk)

(* C14: when the refresh token the Authorization Endpoint returned cannot be *)
(* saved (it is empty, or the write fails), AquireToken or RefreshToken      *)
(* returns an error and accessToken, expires and refresh are what they were  *)
(* before the operation.                                                     *)
C14_FailedSaveInstallsNothing ==
    last.op = "AuthCheck" =>
        \A i \in 1..Len(last.log) :
            PersistFails(last.log[i]) =>
                /\ last.log[i].err # NoError
                /\ last.log[i].post = last.log[i].pre
                /\ i = Len(last.log) => tado = last.log[i].pre

(* a session at its renewal watermark, a grant whose write failed: the old   *)
(* session is still installed                                                *)
C14_Witness ==
    /\ last.op = "AuthCheck"
    /\ Len(last.log) = 1
    /\ PersistFails(last.log[1])
    /\ ~last.log[1].writeOk
    /\ last.log[1].pre.accessToken # ""
    /\ last.log[1].resp.access_token # last.log[1].pre.accessToken
    /\ tado = last.log[1].pre

(* C19: reuse.  When AuthCheck is called with a non-empty accessToken and    *)
(* the clock strictly before t.refresh, it returns nil, issues no exchange   *)
(* with the Authorization Endpoint and leaves accessToken, expires, refresh  *)
(* and the credential file as they were.                                     *)
C19_Reuse ==
    [][(last'.op = "AuthCheck" /\ tado.accessToken # "" /\ now < tado.refresh) =>
        /\ last'.err = NoError
        /\ last'.log = <<>>
        /\ tado' = tado
        /\ tokenFile' = tokenFile]_vars

(* a call that reused the session, one tick before its renewal watermark *)
C19_Witness ==
    /\ last.op = "AuthCheck"
    /\ last.pre.accessToken # ""
    /\ last.t0 + 1 = last.pre.refresh
    /\ last.log = <<>>
    /\ last.err = NoError
    /\ tado = last.pre

(* C20: when AuthCheck is called with an empty accessToken and a stored      *)
(* credential that HasRefreshToken accepts, and the refresh fails, AuthCheck *)
(* returns the error of the refresh and issues no acquire-by-password in     *)
(* that call; and whenever AuthCheck returns nil, accessToken is non-empty.  *)
C20_RefreshErrorReturned ==
    /\ (last.op = "AuthCheck" /\ last.pre.accessToken = "" /\ Len(last.log) >= 1
            /\ HasRefreshToken(last.log[1].file, last.log[1].t0)
            /\ last.log[1].err # NoError) =>
            /\ last.log[1].op = "refresh"
            /\ Len(last.log) = 1
            /\ last.err = last.log[1].err
    /\ (last.op = "AuthCheck" /\ last.err = NoError) => tado.accessToken # ""

(* no session, a stored credential, the endpoint rejected the refresh and    *)
(* the call returned that error with no session installed                    *)
C20_Witness ==
    /\ last.op = "AuthCheck"
    /\ last.pre.accessToken = ""
    /\ Len(last.log) = 1
    /\ last.log[1].op = "refresh"
    /\ last.log[1].resp = Rejected
    /\ last.err = "could not get token"
    /\ tado.accessToken = ""

----------------------------------------------------------------------------
(* Claims on the loop body, checked under SpecExtract *)

(* the AC indicator equals "ON", compared case-insensitively *)
IsOn(v) == v \in {"ON", "On", "oN", "on"}

(* C15: for every zone state a point is constructed for, the power field is  *)
(* the heating-power percentage when a heating-power record is present, also *)
(* when an AC indicator is present; otherwise 100 when the AC indicator is   *)
(* present and equals "ON" compared case-insensitively; otherwise 0.         *)
C15_PowerDerivation ==
    (last.op = "ExtractPoint" /\ last.out.kind = "point") =>
        last.out.point.power =
            IF ~last.state.heat.nil
            THEN last.state.heat.percentage.v
            ELSE IF ~last.state.ac.nil /\ IsOn(last.state.ac.value.v)
            THEN 100
            ELSE 0

(* a state with a heating power of 30 and an AC indicator "on": power is 30 *)
C15_Witness ==
    /\ last.op = "ExtractPoint"
    /\ last.out.kind = "point"
    /\ ~last.state.heat.nil
    /\ ~last.state.ac.nil
    /\ last.state.ac.value.v = "on"
    /\ last.state.heat.percentage.v = 30
    /\ last.out.point.power = 30

----------------------------------------------------------------------------
(* Further claims on the collection cycle, checked under Spec *)

(* C16: every batch handed to influx.Write holds at most one point per home, *)
(* zone and timestamp, also in a cycle that follows a failed write.          *)
C16_NoDuplicateInBatch ==
    last.op = "WriteBatch" =>
        \A p \in BagToSet(last.batch) :
            \A q \in BagToSet(last.batch) :
                (p.home = q.home /\ p.zone = q.zone /\ p.ts = q.ts) =>
                    (p = q /\ CopiesIn(p, last.batch) = 1)

(* the first cycle of the process has ended: every home was fetched and     *)
(* gone through without an error and the batch was written                   *)
FirstCycleWritten ==
    /\ last.op = "WriteBatch"
    /\ last.err = NoError
    /\ last.syncBefore = ZeroTime
    /\ ~last.retry
    /\ ~last.authFailed
    /\ ~last.statesFailed
    /\ \A h \in DOMAIN zones : zones[h].found

(* C17: no reading is lost.  With every fetch and every write succeeding, an *)
(* inside-temperature reading of the first home whose timestamp is not       *)
(* before the instant the first cycle fetched that home is in a batch that   *)
(* was written: if the second cycle skips it as being before the watermark,  *)
(* it was in the batch the first cycle wrote.  (lastSync never decreases, so *)
(* a reading skipped once is skipped in every later cycle.)                  *)
C17_NoReadingLost ==
    [][(FirstCycleWritten /\ last'.op = "CollectHome"
            /\ last'.home = Collect[1] /\ last'.outcome = "processed") =>
        \A r \in last'.readings :
            (last.fetched <= r.ts /\ r.ts < lastSync) =>
                \E p \in BagToSet(last.batch) :
                    p.home = last'.home /\ p.zone = r.zone /\ p.ts = r.ts]_vars

(* C18: when every zone state of a home that carries an inside temperature  *)
(* is newer than lastSync, the loop constructs its points and collect() goes *)
(* on towards the Sink call without a fault, whichever of the other optional *)
(* parts are absent.                                                         *)
C18_RunsToSinkCall ==
    (last.op = "CollectHome" /\ last.fetches \in {0, 1}
        /\ last.outcome \in {"processed", "panic"}
        /\ last.readings # {}
        /\ \A r \in last.readings : r.ts > lastSync) =>
        /\ last.outcome = "processed"
        /\ idx # 0

====
